---------------------------- MODULE Spec2Model ----------------------------
(***************************************************************************)
(* A model of demo.py: one Flask route, '/', methods GET and POST, whose   *)
(* view function index() echoes the form field user_input into a fixed     *)
(* HTML template without escaping.                                         *)
(*                                                                         *)
(* Text is a sequence of tokens.  A token is one character of submitted    *)
(* text or one literal chunk of program text (a piece of the template, a   *)
(* piece of the f-string), so concatenation is \o and "unmodified" is      *)
(* equality of sequences.                                                  *)
(***************************************************************************)
EXTENDS Naturals, Sequences, FiniteSets, TLC

\* Longest submitted text, in characters.
MaxLen == 1

\* Number of handler invocations that may be in flight at once.
NumProcs == 2

\* The characters submitted text is made of: a markup character and a
\* plain one.
Chars == {"<", "a"}

RECURSIVE StringsOfLen(_)
StringsOfLen(n) ==
    IF n = 0 THEN {<<>>}
    ELSE {Append(s, c) : s \in StringsOfLen(n - 1), c \in Chars}

Strings == UNION {StringsOfLen(n) : n \in 0..MaxLen}

Procs == 1..NumProcs

\* The methods the route accepts.
Methods == {"GET", "POST"}

\* request.form: the submitted fields, a function from the names present
\* to their values.  Either the field user_input is there or it is not.
Forms == {[k \in {} |-> <<>>]} \cup {[k \in {"user_input"} |-> s] : s \in Strings}

Requests == [method : Methods, form : Forms]

NoRequest == [method |-> "NONE", form |-> [k \in {} |-> <<>>]]

\* A local name of index() that no assignment has bound yet.
Unbound == <<"UNBOUND">>

NoResponse == [status |-> 0, body |-> <<>>]

-----------------------------------------------------------------------------
\* HTML_TEMPLATE, lines 5-104: literal text, the expression
\* {{ output|safe }} on line 101, literal text, and the newline that ends
\* the string.
TemplateHead == "\n<!doctype html> ... <h2>Output:</h2>\n    <div id=\"output\">"

TemplateTail == "</div>\n</body>\n</html>"

TemplateSource ==
    << [kind |-> "data", text |-> TemplateHead, filters |-> <<>>],
       [kind |-> "var", text |-> "output", filters |-> <<"safe">>],
       [kind |-> "data", text |-> TemplateTail, filters |-> <<>>],
       [kind |-> "data", text |-> "\n", filters |-> <<>>] >>

VARIABLES
    debug,          \* app.debug: set by app.run(debug=True), else False
    HTML_TEMPLATE,  \* the module-level template
    pc,             \* pc[p]: where invocation p of index() stands
    request,        \* request[p]: the request invocation p handles
    user_input,     \* the local user_input, per frame
    output,         \* the local output, per frame
    response,       \* response[p]: what invocation p returned
    seen,           \* history: per posted text, the first output region
    lastOutput      \* history: the output of the last request served

vars == <<debug, HTML_TEMPLATE, pc, request, user_input, output, response,
          seen, lastOutput>>

Unseen == <<"UNSEEN">>

-----------------------------------------------------------------------------
\* Where the locals of invocation p live: each call of index() has its own
\* frame.
SharedFrame(p) == 1

Frame(p) == p

\* Line 108: output = ""
OutputInitStale == lastOutput

OutputInit == <<>>

\* Line 109: request.method == 'POST'
IsPostAlways(req) == TRUE

IsPostOrHasField(req) == req.method = "POST" \/ "user_input" \in DOMAIN req.form

IsPost(req) == req.method = "POST"

\* Line 110: request.form['user_input'].  A missing key raises
\* BadRequestKeyError.
FormGet(form, key) ==
    IF key \in DOMAIN form
    THEN [found |-> TRUE, value |-> form[key]]
    ELSE [found |-> TRUE, value |-> <<>>]

FormLookupNonEmpty(form, key) ==
    IF key \in DOMAIN form /\ form[key] # <<>>
    THEN [found |-> TRUE, value |-> form[key]]
    ELSE [found |-> FALSE, value |-> <<>>]

FormLookup(form, key) ==
    IF key \in DOMAIN form
    THEN [found |-> TRUE, value |-> form[key]]
    ELSE [found |-> FALSE, value |-> <<>>]

\* Line 113: f"You asked: {user_input}. Here is some output: {user_input}"
FormatOutputAccumulating(s) ==
    lastOutput \o <<"You asked: ">> \o s \o <<". Here is some output: ">> \o s

FormatOutput(s) == <<"You asked: ">> \o s \o <<". Here is some output: ">> \o s

\* markupsafe.escape, which the template engine applies to a value that is
\* not marked safe.
EscapeChar(c) ==
    CASE c = "&" -> "&amp;"
      [] c = "<" -> "&lt;"
      [] c = ">" -> "&gt;"
      [] c = "\"" -> "&#34;"
      [] c = "'" -> "&#39;"
      [] OTHER -> c

escape(s) == [i \in 1..Len(s) |-> EscapeChar(s[i])]

\* The template engine drops one newline at the end of the template source.
StripTrailingNewline(t) ==
    IF Len(t) > 0 /\ t[Len(t)].kind = "data" /\ t[Len(t)].text = "\n"
    THEN SubSeq(t, 1, Len(t) - 1)
    ELSE t

RenderNode(node, out) ==
    IF node.kind = "data" THEN <<node.text>>
    ELSE IF \E i \in 1..Len(node.filters) : node.filters[i] = "safe"
         THEN out
         ELSE escape(out)

RECURSIVE RenderNodes(_, _)
RenderNodes(nodes, out) ==
    IF nodes = <<>> THEN <<>>
    ELSE RenderNode(Head(nodes), out) \o RenderNodes(Tail(nodes), out)

\* Line 115: render_template_string(HTML_TEMPLATE, output=output)
RenderEscaped(template, out) ==
    RenderNodes(StripTrailingNewline(
        [i \in 1..Len(template) |->
            [template[i] EXCEPT !.filters = <<>>]]), out)

RenderTwice(template, out) ==
    RenderNodes(StripTrailingNewline(template), out) \o out

render_template_string(template, out) ==
    RenderNodes(StripTrailingNewline(template), out)

\* What the framework makes of the BadRequestKeyError that line 110 lets
\* escape.  With app.debug set the key error is trapped and propagated as
\* an unhandled exception: 500.  Otherwise it is the HTTP error it derives
\* from: 400 Bad Request.
ErrorResponseAlways500(dbg) ==
    [status |-> 500, body |-> <<"Internal Server Error">>]

ErrorResponse(dbg) ==
    IF dbg
    THEN [status |-> 500, body |-> <<"KeyError traceback">>]
    ELSE [status |-> 400, body |-> <<"Bad Request">>]

-----------------------------------------------------------------------------
Init ==
    /\ debug \in BOOLEAN
    /\ HTML_TEMPLATE = TemplateSource
    /\ pc = [p \in Procs |-> "idle"]
    /\ request = [p \in Procs |-> NoRequest]
    /\ user_input = [p \in Procs |-> Unbound]
    /\ output = [p \in Procs |-> Unbound]
    /\ response = [p \in Procs |-> NoResponse]
    /\ seen = [s \in Strings |-> Unseen]
    /\ lastOutput = <<>>

\* Lines 106-107: the route hands a request to a new call of index().
Dispatch(p, req) ==
    /\ pc[p] = "idle"
    /\ pc' = [pc EXCEPT ![p] = "l108"]
    /\ request' = [request EXCEPT ![p] = req]
    /\ UNCHANGED <<debug, HTML_TEMPLATE, user_input, output, response,
                   seen, lastOutput>>

\* Line 108.
IndexInitOutput(p) ==
    /\ pc[p] = "l108"
    /\ output' = [output EXCEPT ![Frame(p)] = OutputInit]
    /\ pc' = [pc EXCEPT ![p] = "l109"]
    /\ UNCHANGED <<debug, HTML_TEMPLATE, request, user_input, response,
                   seen, lastOutput>>

\* Line 109.
IndexTestMethod(p) ==
    /\ pc[p] = "l109"
    /\ pc' = [pc EXCEPT ![p] = IF IsPost(request[p]) THEN "l110" ELSE "l115"]
    /\ UNCHANGED <<debug, HTML_TEMPLATE, request, user_input, output,
                   response, seen, lastOutput>>

\* Line 110, the field is there.
IndexReadField(p) ==
    /\ pc[p] = "l110"
    /\ FormLookup(request[p].form, "user_input").found
    /\ user_input' = [user_input EXCEPT ![Frame(p)] =
                         FormLookup(request[p].form, "user_input").value]
    /\ pc' = [pc EXCEPT ![p] = "l113"]
    /\ UNCHANGED <<debug, HTML_TEMPLATE, request, output, response,
                   seen, lastOutput>>

\* Line 110, the field is missing: the lookup raises, index() is left
\* through the exception and the framework answers.
IndexMissingField(p) ==
    /\ pc[p] = "l110"
    /\ ~FormLookup(request[p].form, "user_input").found
    /\ response' = [response EXCEPT ![p] = ErrorResponse(debug)]
    /\ pc' = [pc EXCEPT ![p] = "done"]
    /\ UNCHANGED <<debug, HTML_TEMPLATE, request, user_input, output,
                   seen, lastOutput>>

\* Line 113.
IndexFormat(p) ==
    /\ pc[p] = "l113"
    /\ output' = [output EXCEPT ![Frame(p)] = FormatOutput(user_input[Frame(p)])]
    /\ pc' = [pc EXCEPT ![p] = "l115"]
    /\ UNCHANGED <<debug, HTML_TEMPLATE, request, user_input, response,
                   seen, lastOutput>>

\* Line 115: render and return; the view's return value is a 200 response.
IndexRender(p) ==
    /\ pc[p] = "l115"
    /\ response' = [response EXCEPT ![p] =
           [status |-> 200,
            body |-> render_template_string(HTML_TEMPLATE, output[Frame(p)])]]
    /\ pc' = [pc EXCEPT ![p] = "done"]
    /\ UNCHANGED <<debug, HTML_TEMPLATE, request, user_input, output,
                   seen, lastOutput>>

\* The content of the element with id 'output' in a rendered document:
\* what stands between the text before the expression of line 101 and the
\* text after it.
OutputRegion(body) == SubSeq(body, 2, Len(body) - 1)

IsDocument(body) ==
    /\ Len(body) >= 2
    /\ body[1] = TemplateHead
    /\ body[Len(body)] = TemplateTail

\* The response leaves; the frame of the call is gone.  With keep, the
\* observer records what was served.
Finish(p, keep) ==
    /\ pc[p] = "done"
    /\ pc' = [pc EXCEPT ![p] = "idle"]
    /\ request' = [request EXCEPT ![p] = NoRequest]
    /\ response' = [response EXCEPT ![p] = NoResponse]
    /\ user_input' = [user_input EXCEPT ![Frame(p)] = Unbound]
    /\ output' = [output EXCEPT ![Frame(p)] = Unbound]
    /\ IF keep
       THEN /\ lastOutput' = output[Frame(p)]
            /\ seen' =
                 IF /\ request[p].method = "POST"
                    /\ "user_input" \in DOMAIN request[p].form
                    /\ response[p].status = 200
                    /\ seen[request[p].form["user_input"]] = Unseen
                 THEN [seen EXCEPT ![request[p].form["user_input"]] =
                          OutputRegion(response[p].body)]
                 ELSE seen
       ELSE UNCHANGED <<seen, lastOutput>>
    /\ UNCHANGED <<debug, HTML_TEMPLATE>>

Step(p) ==
    \/ IndexInitOutput(p)
    \/ IndexTestMethod(p)
    \/ IndexReadField(p)
    \/ IndexMissingField(p)
    \/ IndexFormat(p)
    \/ IndexRender(p)

\* One request at a time, each served to completion and observed.
Next ==
    \/ \E req \in Requests : Dispatch(1, req)
    \/ Step(1)
    \/ Finish(1, TRUE)

Spec == Init /\ [][Next]_vars

\* Threaded serving: the calls of index() interleave line by line.
NextConc ==
    \E p \in Procs :
        \/ \E req \in Requests : Dispatch(p, req)
        \/ Step(p)
        \/ Finish(p, FALSE)

SpecConc == Init /\ [][NextConc]_vars

-----------------------------------------------------------------------------
\* What the properties below read off a state.
Done(p) == pc[p] = "done"

HasField(req) == "user_input" \in DOMAIN req.form

Field(req) == req.form["user_input"]

Region(p) == OutputRegion(response[p].body)

\* The output a request calls for, taken from the request alone.
ExpectedOutput(req) ==
    IF req.method = "POST"
    THEN <<"You asked: ">> \o Field(req) \o <<". Here is some output: ">> \o Field(req)
    ELSE <<>>

\* C1: every POST that carries user_input = s is answered with a document
\* whose output region is exactly "You asked: " + s + ". Here is some
\* output: " + s, s verbatim at both places; the empty s gives
\* "You asked: . Here is some output: ".
C1_PostEchoesInput ==
    \A p \in Procs :
        (Done(p) /\ request[p].method = "POST" /\ HasField(request[p])) =>
            /\ IsDocument(response[p].body)
            /\ Region(p) = <<"You asked: ">> \o Field(request[p])
                             \o <<". Here is some output: ">> \o Field(request[p])
            /\ (Field(request[p]) = <<>> =>
                    Region(p) = <<"You asked: ", ". Here is some output: ">>)

C1_Witness ==
    \E p \in Procs :
        /\ Done(p)
        /\ request[p].method = "POST"
        /\ HasField(request[p])
        /\ Field(request[p]) = <<"<">>
        /\ Region(p) = <<"You asked: ", "<", ". Here is some output: ", "<">>

\* C2: every GET ends with output = "" and an empty output region in the
\* document returned.
C2_GetOutputEmpty ==
    \A p \in Procs :
        (Done(p) /\ request[p].method = "GET") =>
            /\ output[p] = <<>>
            /\ IsDocument(response[p].body)
            /\ Region(p) = <<>>

C2_Witness ==
    \E p \in Procs :
        /\ Done(p)
        /\ request[p].method = "GET"
        /\ ~HasField(request[p])
        /\ response[p].body = <<TemplateHead, TemplateTail>>

\* C3: a POST without user_input never reaches the formatting or the
\* rendering step, and its response is neither a success nor a rendered
\* document.
C3_MissingFieldFails ==
    \A p \in Procs :
        (request[p].method = "POST" /\ ~HasField(request[p])) =>
            /\ pc[p] \notin {"l113", "l115"}
            /\ Done(p) => /\ response[p].status # 200
                          /\ ~IsDocument(response[p].body)

C3_Witness ==
    \E p \in Procs :
        /\ Done(p)
        /\ request[p].method = "POST"
        /\ ~HasField(request[p])
        /\ response[p].status >= 400

\* C4 as stated: a POST without user_input is answered with a 5xx status.
C4_MissingFieldIsServerError ==
    \A p \in Procs :
        (Done(p) /\ request[p].method = "POST" /\ ~HasField(request[p])) =>
            response[p].status \in 500..599

\* C4 as amended: a POST without user_input is answered with 500 when the
\* application runs in debug mode and with 400 Bad Request when it does not.
C4_MissingFieldStatusByDebug ==
    \A p \in Procs :
        (Done(p) /\ request[p].method = "POST" /\ ~HasField(request[p])) =>
            response[p].status = IF debug THEN 500 ELSE 400

C4_Witness ==
    \E p \in Procs :
        /\ Done(p)
        /\ request[p].method = "POST"
        /\ ~HasField(request[p])
        /\ ~debug
        /\ response[p].status = 400

\* C5: every GET, and every POST that carries user_input whatever its
\* value, is answered with status 200 and the rendered document.
C5_SuccessIs200 ==
    \A p \in Procs :
        (Done(p) /\ (request[p].method = "GET" \/ HasField(request[p]))) =>
            /\ response[p].status = 200
            /\ IsDocument(response[p].body)

C5_Witness ==
    \E p \in Procs :
        /\ Done(p)
        /\ request[p].method = "POST"
        /\ HasField(request[p])
        /\ Field(request[p]) = <<>>
        /\ response[p].status = 200

\* C6: whatever was served before, the output region of a served request
\* is the one its own method and user_input call for; a GET after POSTs
\* has an empty region.
C6_OutputFromCurrentRequestOnly ==
    \A p \in Procs :
        (Done(p) /\ response[p].status = 200) =>
            /\ Region(p) = ExpectedOutput(request[p])
            /\ (request[p].method = "GET" => Region(p) = <<>>)

C6_Witness ==
    \E p \in Procs :
        /\ Done(p)
        /\ request[p].method = "GET"
        /\ lastOutput # <<>>
        /\ \E s \in Strings : s # <<>> /\ seen[s] # Unseen
        /\ Region(p) = <<>>

\* C7: a POST with the same user_input as an earlier POST gets the same
\* output region as that earlier one, whatever was served in between.
C7_SamePostSameRegion ==
    \A p \in Procs :
        (/\ Done(p)
         /\ request[p].method = "POST"
         /\ HasField(request[p])
         /\ seen[Field(request[p])] # Unseen) =>
            Region(p) = seen[Field(request[p])]

C7_Witness ==
    \E p \in Procs :
        /\ Done(p)
        /\ request[p].method = "POST"
        /\ HasField(request[p])
        /\ seen[Field(request[p])] # Unseen
        /\ lastOutput # seen[Field(request[p])]
        /\ Region(p) = seen[Field(request[p])]

\* C8: under every interleaving of the calls of index(), each call's
\* locals and response are the ones its own request calls for.
C8_ConcurrentCallsIndependent ==
    \A p \in Procs :
        /\ pc[p] = "l113" => user_input[p] = Field(request[p])
        /\ pc[p] = "l115" => output[p] = ExpectedOutput(request[p])
        /\ (Done(p) /\ (request[p].method = "GET" \/ HasField(request[p]))) =>
               response[p] =
                   [status |-> 200,
                    body |-> <<TemplateHead>> \o ExpectedOutput(request[p])
                               \o <<TemplateTail>>]

C8_Witness ==
    \E p \in Procs, q \in Procs :
        /\ p # q
        /\ pc[p] = "l115"
        /\ request[p].method = "POST"
        /\ output[p] = <<"You asked: ", "<", ". Here is some output: ", "<">>
        /\ pc[q] = "l113"
        /\ user_input[q] = <<"a">>
        /\ output[q] = <<>>

\* C9: a rendered document is the template's text before the expression,
\* the output verbatim, and the template's text after it, nothing else;
\* and the template is what it was at start.
C9_TemplateFixedOutputOnce ==
    /\ HTML_TEMPLATE = TemplateSource
    /\ \A p \in Procs :
           (Done(p) /\ response[p].status = 200) =>
               response[p].body = <<TemplateHead>> \o output[p] \o <<TemplateTail>>

C9_Witness ==
    \E p \in Procs :
        /\ Done(p)
        /\ response[p].status = 200
        /\ output[p] = <<"You asked: ", "a", ". Here is some output: ", "a">>
        /\ Len(response[p].body) = 6

\* C10: the field is looked up only for a POST; a request with another
\* method ends with status 200 and an empty output whether or not it
\* carries user_input.
C10_FieldReadOnlyOnPost ==
    \A p \in Procs :
        /\ pc[p] \in {"l110", "l113"} => request[p].method = "POST"
        /\ (Done(p) /\ request[p].method # "POST") =>
               /\ response[p].status = 200
               /\ user_input[p] = Unbound
               /\ output[p] = <<>>

C10_Witness ==
    \E p \in Procs :
        /\ Done(p)
        /\ request[p].method = "GET"
        /\ HasField(request[p])
        /\ Field(request[p]) = <<"<">>
        /\ response[p].status = 200
        /\ Region(p) = <<>>

=============================================================================
